---- MODULE Spec2Model ----
(***************************************************************************)
(* Othello search agent (agent.py): the minimax and alpha-beta engines,    *)
(* the process-wide state cache `cached`, the utility function and the     *)
(* node-ordering branch, over the rules engine of othello_shared           *)
(* (find_lines, get_possible_moves, play_move, get_score).                 *)
(*                                                                         *)
(* A board is a tuple of rows, each a tuple of cells 0 (empty), 1 (dark),  *)
(* 2 (light), as in the Python program.  A move is <<column, row>> with    *)
(* 0-based coordinates; the Python value None is the empty tuple.          *)
(***************************************************************************)
EXTENDS Integers, Sequences, FiniteSets, TLC

VARIABLES cached, engine, board, color, limit, caching, ordering,
          result, raised, depth, ncalls

vars == <<cached, engine, board, color, limit, caching, ordering,
          result, raised, depth, ncalls>>

None == <<>>

(***************************************************************************)
(* Bounds of the model: the largest depth limit of a first call, the number *)
(* of moves played after Seed to obtain the boards of a first call, the     *)
(* number of calls of a longer-running process and the largest depth limit  *)
(* of its calls.  The limit -1 (unlimited) and 0 are always included.       *)
(***************************************************************************)
MaxLimit == 4
MaxPlies == 2
MaxCalls == 2
MaxSeqLimit == 2

(***************************************************************************)
(* Rules engine (othello_shared).                                          *)
(***************************************************************************)
Cell(b, u, v) == b[v + 1][u + 1]

Directions ==
  << <<0, 1>>, <<1, 1>>, <<1, 0>>, <<1, -1>>,
     <<0, -1>>, <<-1, -1>>, <<-1, 0>>, <<-1, 1>> >>

\* The inner while loop of find_lines: the line of opposing disks from (u, v)
\* in direction (xdir, ydir), or the empty line when it is not closed by a
\* disk of `player`.
RECURSIVE find_line(_, _, _, _, _, _, _)
find_line(b, player, u, v, xdir, ydir, line) ==
  IF u >= 0 /\ u < Len(b) /\ v >= 0 /\ v < Len(b)
  THEN IF Cell(b, u, v) = 0 THEN <<>>
       ELSE IF Cell(b, u, v) = player THEN line
       ELSE find_line(b, player, u + xdir, v + ydir, xdir, ydir,
                      Append(line, <<u, v>>))
  ELSE <<>>

find_lines(b, i, j, player) ==
  LET all == [d \in 1..Len(Directions) |->
                find_line(b, player, i + Directions[d][1], j + Directions[d][2],
                          Directions[d][1], Directions[d][2], <<>>)]
      nonEmpty(l) == l # <<>>
  IN  SelectSeq(all, nonEmpty)

\* Columns i outermost, rows j innermost: k = i * n + j.
RECURSIVE possible_moves_from(_, _, _)
possible_moves_from(b, player, k) ==
  IF k >= Len(b) * Len(b) THEN <<>>
  ELSE LET i == k \div Len(b)
           j == k % Len(b)
           rest == possible_moves_from(b, player, k + 1)
       IN  IF Cell(b, i, j) = 0 /\ find_lines(b, i, j, player) # <<>>
           THEN <<(<<i, j>>)>> \o rest
           ELSE rest

get_possible_moves(b, player) == possible_moves_from(b, player, 0)

play_move(b, player, i, j) ==
  LET lines == find_lines(b, i, j, player)
  IN  [v \in 1..Len(b) |->
        [u \in 1..Len(b) |->
          IF (u - 1 = i /\ v - 1 = j)
             \/ (\E l \in DOMAIN lines : \E p \in DOMAIN lines[l] :
                    lines[l][p] = <<u - 1, v - 1>>)
          THEN player ELSE b[v][u]]]

Count(b, player) ==
  Cardinality({rc \in (1..Len(b)) \X (1..Len(b)) : b[rc[1]][rc[2]] = player})

get_score(b) == <<Count(b, 1), Count(b, 2)>>

(***************************************************************************)
(* agent.py                                                                *)
(***************************************************************************)
Inf == 1000

compute_utility(b, c) ==
  LET score == get_score(b)
  IN  IF c = 1 THEN score[1] - score[2] ELSE score[2] - score[1]

Opponent(c) == IF c = 1 THEN 2 ELSE 1

\* A node's return value: the Python pair (best_move, value), the contents
\* of the global dict `cached` when the node returns, and the number of
\* nested node calls below it (a measurement, not program state).
Ret(m, v, cache, d) == [move |-> m, value |-> v, cache |-> cache, depth |-> d]

\* cached[next_board] = (next_move, next_value)
Store(cache, b, m, v) == (b :> <<m, v>>) @@ cache

\* The element of a one-element set: binds the result of a call to a name.
The(S) == CHOOSE x \in S : TRUE

Max2(a, b) == IF a > b THEN a ELSE b
Min2(a, b) == IF a < b THEN a ELSE b

RECURSIVE minimax_min_node(_, _, _, _, _)
RECURSIVE minimax_max_node(_, _, _, _, _)
RECURSIVE minimax_min_loop(_, _, _, _, _, _, _, _, _, _)
RECURSIVE minimax_max_loop(_, _, _, _, _, _, _, _, _, _)

\* minimax_min_loop with `if value >= next_value`: a later move of equal
\* value replaces the earlier one.
minimax_min_loop_lastTie(b, c, lim, cflag, moves, k, value, best_move, cache, d) ==
  IF k > Len(moves) THEN Ret(best_move, value, cache, d)
  ELSE
    LET move == moves[k]
        next_board == play_move(b, c, move[1], move[2])
        \* the rest of the iteration, given (next_move, next_value)
        rest(next_value, cache1, d1) ==
          IF value >= next_value
          THEN minimax_min_loop(b, c, lim, cflag, moves, k + 1,
                                next_value, move, cache1, d1)
          ELSE minimax_min_loop(b, c, lim, cflag, moves, k + 1,
                                value, best_move, cache1, d1)
    IN  IF next_board \in DOMAIN cache
        THEN rest(cache[next_board][2], cache, d)
        ELSE The({rest(sub.value, Store(sub.cache, next_board, sub.move, sub.value),
                       Max2(d, 1 + sub.depth)) :
                    sub \in {minimax_max_node(next_board, Opponent(c), lim - 1,
                                               cflag, cache)}})

\* for move in moves (lines 82-95), from the k-th move on.
minimax_min_loop(b, c, lim, cflag, moves, k, value, best_move, cache, d) ==
  IF k > Len(moves) THEN Ret(best_move, value, cache, d)
  ELSE
    LET move == moves[k]
        next_board == play_move(b, c, move[1], move[2])
        \* the rest of the iteration, given (next_move, next_value)
        rest(next_value, cache1, d1) ==
          IF value > next_value
          THEN minimax_min_loop(b, c, lim, cflag, moves, k + 1,
                                next_value, move, cache1, d1)
          ELSE minimax_min_loop(b, c, lim, cflag, moves, k + 1,
                                value, best_move, cache1, d1)
    IN  IF next_board \in DOMAIN cache
        THEN rest(cache[next_board][2], cache, d)
        ELSE The({rest(sub.value, Store(sub.cache, next_board, sub.move, sub.value),
                       Max2(d, 1 + sub.depth)) :
                    sub \in {minimax_max_node(next_board, Opponent(c), lim - 1,
                                               cflag, cache)}})

minimax_min_node(b, c, lim, cflag, cache) ==
  LET moves == get_possible_moves(b, c)
  IN  IF moves = <<>> \/ lim = 0
      THEN Ret(None, compute_utility(b, c), cache, 0)
      ELSE minimax_min_loop(b, c, lim, cflag, moves, 1, Inf, None, cache, 0)

\* minimax_max_loop with `cached[next_board] = (best_move, value)`: the entry
\* holds the parent's running best instead of the child's result.
minimax_max_loop_storesBest(b, c, lim, cflag, moves, k, value, best_move, cache, d) ==
  IF k > Len(moves) THEN Ret(best_move, value, cache, d)
  ELSE
    LET move == moves[k]
        next_board == play_move(b, c, move[1], move[2])
        \* the rest of the iteration, given (next_move, next_value)
        rest(next_value, cache1, d1) ==
          IF value < next_value
          THEN minimax_max_loop(b, c, lim, cflag, moves, k + 1,
                                next_value, move, cache1, d1)
          ELSE minimax_max_loop(b, c, lim, cflag, moves, k + 1,
                                value, best_move, cache1, d1)
    IN  IF next_board \in DOMAIN cache
        THEN rest(cache[next_board][2], cache, d)
        ELSE The({rest(sub.value, Store(sub.cache, next_board, best_move, value),
                       Max2(d, 1 + sub.depth)) :
                    sub \in {minimax_min_node(next_board, Opponent(c), lim - 1,
                                               cflag, cache)}})

\* for move in moves (lines 111-124), from the k-th move on.
minimax_max_loop(b, c, lim, cflag, moves, k, value, best_move, cache, d) ==
  IF k > Len(moves) THEN Ret(best_move, value, cache, d)
  ELSE
    LET move == moves[k]
        next_board == play_move(b, c, move[1], move[2])
        \* the rest of the iteration, given (next_move, next_value)
        rest(next_value, cache1, d1) ==
          IF value < next_value
          THEN minimax_max_loop(b, c, lim, cflag, moves, k + 1,
                                next_value, move, cache1, d1)
          ELSE minimax_max_loop(b, c, lim, cflag, moves, k + 1,
                                value, best_move, cache1, d1)
    IN  IF next_board \in DOMAIN cache
        THEN rest(cache[next_board][2], cache, d)
        ELSE The({rest(sub.value, Store(sub.cache, next_board, sub.move, sub.value),
                       Max2(d, 1 + sub.depth)) :
                    sub \in {minimax_min_node(next_board, Opponent(c), lim - 1,
                                               cflag, cache)}})

\* minimax_max_node with `if limit == 0`: the empty move list is not tested.
minimax_max_node_limitOnly(b, c, lim, cflag, cache) ==
  LET moves == get_possible_moves(b, c)
  IN  IF lim = 0
      THEN Ret(None, compute_utility(b, c), cache, 0)
      ELSE minimax_max_loop(b, c, lim, cflag, moves, 1, -Inf, None, cache, 0)

minimax_max_node(b, c, lim, cflag, cache) ==
  LET moves == get_possible_moves(b, c)
  IN  IF moves = <<>> \/ lim = 0
      THEN Ret(None, compute_utility(b, c), cache, 0)
      ELSE minimax_max_loop(b, c, lim, cflag, moves, 1, -Inf, None, cache, 0)

select_move_minimax(b, c, lim, cflag, cache) ==
  minimax_max_node(b, c, lim, cflag, cache)

\* Alpha-beta nodes additionally report whether a TypeError left the call.
ARet(m, v, cache, d) ==
  [move |-> m, value |-> v, cache |-> cache, depth |-> d, raised |-> FALSE]

Raise(cache, d) ==
  [move |-> None, value |-> 0, cache |-> cache, depth |-> d, raised |-> TRUE]

\* ordered_moves.append([(move[0], move[1]), compute_utility(play_move(...), color)])
RECURSIVE ordered_moves(_, _, _, _)
ordered_moves(b, c, moves, k) ==
  IF k > Len(moves) THEN <<>>
  ELSE << <<moves[k],
            compute_utility(play_move(b, c, moves[k][1], moves[k][2]), c)>> >>
       \o ordered_moves(b, c, moves, k + 1)

\* x inserted after the elements of the sorted sequence acc whose key is not
\* smaller: elements of equal key keep their original order.
insert_stable(acc, x) ==
  LET pos == CHOOSE p \in 0..Len(acc) :
               /\ \A q \in 1..p : acc[q][2] >= x[2]
               /\ p < Len(acc) => acc[p + 1][2] < x[2]
  IN  SubSeq(acc, 1, pos) \o <<x>> \o SubSeq(acc, pos + 1, Len(acc))

\* sorted(ordered_moves, key=lambda x: x[1], reverse=True): stable, descending.
RECURSIVE sorted_desc(_, _)
sorted_desc(s, acc) ==
  IF s = <<>> THEN acc ELSE sorted_desc(Tail(s), insert_stable(acc, Head(s)))

\* The moves a node iterates: with ordering the sorted [(i, j), utility]
\* entries, otherwise the (i, j) pairs of the rules engine.
loop_moves(b, c, moves, oflag) ==
  IF oflag # 0 THEN sorted_desc(ordered_moves(b, c, moves, 1), <<>>) ELSE moves

RECURSIVE alphabeta_min_node(_, _, _, _, _, _, _, _)
RECURSIVE alphabeta_max_node(_, _, _, _, _, _, _, _)
RECURSIVE alphabeta_min_loop(_, _, _, _, _, _, _, _, _, _, _, _, _)
RECURSIVE alphabeta_max_loop(_, _, _, _, _, _, _, _, _, _, _, _, _)

\* for move in moves (lines 163-182), from the k-th move on.  With ordering
\* on, move[0] is the (i, j) tuple and move[1] the utility, so play_move
\* (find_lines: u = i; u += xdir) raises TypeError on the first iteration.
alphabeta_min_loop(b, c, alpha, beta, lim, cflag, oflag, moves, k, value, best_move, cache, d) ==
  IF k > Len(moves) THEN ARet(best_move, value, cache, d)
  ELSE IF oflag # 0 THEN Raise(cache, d)
  ELSE
    LET move == moves[k]
        next_board == play_move(b, c, move[1], move[2])
        \* the rest of the iteration, given (next_move, next_value)
        rest(next_move, next_value, cache1, d1) ==
          LET value1 == IF next_value < value THEN next_value ELSE value
              best1 == IF next_value < value THEN move ELSE best_move
          IN  IF value1 <= alpha THEN ARet(best1, value1, cache1, d1)
              ELSE alphabeta_min_loop(b, c, alpha, Min2(beta, value1), lim, cflag,
                                      oflag, moves, k + 1, value1, best1, cache1, d1)
    IN  IF next_board \in DOMAIN cache
        THEN rest(cache[next_board][1], cache[next_board][2], cache, d)
        ELSE The({IF sub.raised THEN Raise(sub.cache, Max2(d, 1 + sub.depth))
                  ELSE rest(sub.move, sub.value,
                            Store(sub.cache, next_board, sub.move, sub.value),
                            Max2(d, 1 + sub.depth)) :
                    sub \in {alphabeta_max_node(next_board, Opponent(c), alpha, beta,
                                                 lim - 1, cflag, oflag, cache)}})

alphabeta_min_node(b, c, alpha, beta, lim, cflag, oflag, cache) ==
  LET moves == get_possible_moves(b, c)
  IN  IF moves = <<>> \/ lim = 0
      THEN ARet(None, compute_utility(b, c), cache, 0)
      ELSE alphabeta_min_loop(b, c, alpha, beta, lim, cflag, oflag,
                              loop_moves(b, c, moves, oflag), 1,
                              Inf, None, cache, 0)

\* alphabeta_max_loop with `best_move = next_move`: the node remembers the
\* child's reply instead of its own move.
alphabeta_max_loop_childMove(b, c, alpha, beta, lim, cflag, oflag, moves, k, value, best_move, cache, d) ==
  IF k > Len(moves) THEN ARet(best_move, value, cache, d)
  ELSE IF oflag # 0 THEN Raise(cache, d)
  ELSE
    LET move == moves[k]
        next_board == play_move(b, c, move[1], move[2])
        \* the rest of the iteration, given (next_move, next_value)
        rest(next_move, next_value, cache1, d1) ==
          LET value1 == IF next_value > value THEN next_value ELSE value
              best1 == IF next_value > value THEN next_move ELSE best_move
          IN  IF value1 >= beta THEN ARet(best1, value1, cache1, d1)
              ELSE alphabeta_max_loop(b, c, Max2(alpha, value1), beta, lim, cflag,
                                      oflag, moves, k + 1, value1, best1, cache1, d1)
    IN  IF next_board \in DOMAIN cache
        THEN rest(cache[next_board][1], cache[next_board][2], cache, d)
        ELSE The({IF sub.raised THEN Raise(sub.cache, Max2(d, 1 + sub.depth))
                  ELSE rest(sub.move, sub.value,
                            Store(sub.cache, next_board, sub.move, sub.value),
                            Max2(d, 1 + sub.depth)) :
                    sub \in {alphabeta_min_node(next_board, Opponent(c), alpha, beta,
                                                 lim - 1, cflag, oflag, cache)}})

\* for move in moves (lines 204-223), from the k-th move on.
alphabeta_max_loop(b, c, alpha, beta, lim, cflag, oflag, moves, k, value, best_move, cache, d) ==
  IF k > Len(moves) THEN ARet(best_move, value, cache, d)
  ELSE IF oflag # 0 THEN Raise(cache, d)
  ELSE
    LET move == moves[k]
        next_board == play_move(b, c, move[1], move[2])
        \* the rest of the iteration, given (next_move, next_value)
        rest(next_move, next_value, cache1, d1) ==
          LET value1 == IF next_value > value THEN next_value ELSE value
              best1 == IF next_value > value THEN move ELSE best_move
          IN  IF value1 >= beta THEN ARet(best1, value1, cache1, d1)
              ELSE alphabeta_max_loop(b, c, Max2(alpha, value1), beta, lim, cflag,
                                      oflag, moves, k + 1, value1, best1, cache1, d1)
    IN  IF next_board \in DOMAIN cache
        THEN rest(cache[next_board][1], cache[next_board][2], cache, d)
        ELSE The({IF sub.raised THEN Raise(sub.cache, Max2(d, 1 + sub.depth))
                  ELSE rest(sub.move, sub.value,
                            Store(sub.cache, next_board, sub.move, sub.value),
                            Max2(d, 1 + sub.depth)) :
                    sub \in {alphabeta_min_node(next_board, Opponent(c), alpha, beta,
                                                 lim - 1, cflag, oflag, cache)}})

alphabeta_max_node(b, c, alpha, beta, lim, cflag, oflag, cache) ==
  LET moves == get_possible_moves(b, c)
  IN  IF moves = <<>> \/ lim = 0
      THEN ARet(None, compute_utility(b, c), cache, 0)
      ELSE alphabeta_max_loop(b, c, alpha, beta, lim, cflag, oflag,
                              loop_moves(b, c, moves, oflag), 1,
                              -Inf, None, cache, 0)

select_move_alphabeta(b, c, lim, cflag, oflag, cache) ==
  alphabeta_max_node(b, c, -Inf, Inf, lim, cflag, oflag, cache)

(***************************************************************************)
(* Inputs.  The boards are positions of a 4x4 game: a position with six    *)
(* empty cells (dark to move) and the positions up to MaxPlies moves after *)
(* it for a call in a fresh process; three late positions for the calls of *)
(* a longer-running process.                                               *)
(***************************************************************************)
Seed ==
  << <<0, 0, 0, 2>>,
     <<1, 1, 2, 2>>,
     <<0, 1, 2, 1>>,
     <<0, 2, 1, 0>> >>

RECURSIVE Descendants(_, _, _)
Descendants(b, c, k) ==
  IF k = 0 THEN {b}
  ELSE LET moves == get_possible_moves(b, c)
       IN  {b} \cup UNION {Descendants(play_move(b, c, moves[m][1], moves[m][2]),
                                       Opponent(c), k - 1) : m \in DOMAIN moves}

FreshBoards == Descendants(Seed, 1, MaxPlies)

BoardA ==
  << <<0, 2, 0, 2>>,
     <<1, 2, 2, 2>>,
     <<1, 1, 1, 1>>,
     <<0, 2, 1, 1>> >>

BoardB ==
  << <<1, 2, 0, 2>>,
     <<1, 1, 2, 2>>,
     <<0, 2, 1, 1>>,
     <<0, 2, 1, 1>> >>

BoardFull ==
  << <<1, 1, 1, 2>>,
     <<1, 1, 2, 2>>,
     <<1, 2, 1, 1>>,
     <<2, 2, 1, 1>> >>

SeqBoards == {BoardA, BoardB, BoardFull}

Colors == {1, 2}
Flags == {0, 1}
FreshLimits == {-1} \cup 0..MaxLimit
SeqLimits == {-1} \cup 0..MaxSeqLimit

(***************************************************************************)
(* The process: the cache starts empty and lives as long as the process;   *)
(* run_ai calls one of the two select_move functions per turn.             *)
(***************************************************************************)
Init ==
  /\ cached = <<>>
  /\ engine = "none"
  /\ board = <<>>
  /\ color = 0
  /\ limit = 0
  /\ caching = 0
  /\ ordering = 0
  /\ result = [move |-> None, value |-> 0]
  /\ raised = FALSE
  /\ depth = 0
  /\ ncalls = 0

SelectMoveMinimax(b, c, lim, cflag) ==
  \E r \in {select_move_minimax(b, c, lim, cflag, cached)} :
      /\ cached' = r.cache
      /\ engine' = "minimax"
      /\ board' = b
      /\ color' = c
      /\ limit' = lim
      /\ caching' = cflag
      /\ ordering' = 0
      /\ result' = [move |-> r.move, value |-> r.value]
      /\ raised' = FALSE
      /\ depth' = r.depth
      /\ ncalls' = ncalls + 1

SelectMoveAlphabeta(b, c, lim, cflag, oflag) ==
  \E r \in {select_move_alphabeta(b, c, lim, cflag, oflag, cached)} :
      /\ cached' = r.cache
      /\ engine' = "alphabeta"
      /\ board' = b
      /\ color' = c
      /\ limit' = lim
      /\ caching' = cflag
      /\ ordering' = oflag
      /\ result' = [move |-> r.move, value |-> r.value]
      /\ raised' = r.raised
      /\ depth' = r.depth
      /\ ncalls' = ncalls + 1

\* A process that makes up to MaxCalls calls.
MinimaxTurn ==
  /\ ncalls < MaxCalls
  /\ \E b \in SeqBoards, c \in Colors, lim \in SeqLimits, cflag \in Flags :
       SelectMoveMinimax(b, c, lim, cflag)

AlphabetaTurn ==
  /\ ncalls < MaxCalls
  /\ \E b \in SeqBoards, c \in Colors, lim \in SeqLimits,
        cflag \in Flags, oflag \in Flags :
       SelectMoveAlphabeta(b, c, lim, cflag, oflag)

Next == MinimaxTurn \/ AlphabetaTurn

Spec == Init /\ [][Next]_vars

\* The first call of a fresh process.
FreshMinimax ==
  /\ ncalls = 0
  /\ \E b \in FreshBoards, c \in Colors, lim \in FreshLimits, cflag \in Flags :
       SelectMoveMinimax(b, c, lim, cflag)

FreshAlphabeta ==
  /\ ncalls = 0
  /\ \E b \in FreshBoards, c \in Colors, lim \in FreshLimits,
        cflag \in Flags, oflag \in Flags :
       SelectMoveAlphabeta(b, c, lim, cflag, oflag)

NextFresh == FreshMinimax \/ FreshAlphabeta

SpecFresh == Init /\ [][NextFresh]_vars

(***************************************************************************)
(* Reference searches used to state the properties: the value of a node    *)
(* computed directly from the game tree, with no cache.                    *)
(***************************************************************************)
SetMax(S) == CHOOSE x \in S : \A y \in S : y <= x
SetMin(S) == CHOOSE x \in S : \A y \in S : x <= y

MoveSet(b, c) ==
  LET moves == get_possible_moves(b, c) IN {moves[k] : k \in DOMAIN moves}

Empties(b) == Count(b, 0)

\* The node recursion of lines 69-124 without the cache: a leaf is scored for
\* the color that is to move at the leaf.
RECURSIVE PlainValue(_, _, _, _)
PlainValue(b, c, lim, isMax) ==
  LET moves == get_possible_moves(b, c)
  IN  IF moves = <<>> \/ lim = 0 THEN compute_utility(b, c)
      ELSE LET vals == {PlainValue(play_move(b, c, moves[k][1], moves[k][2]),
                                   Opponent(c), lim - 1, ~isMax) : k \in DOMAIN moves}
           IN  IF isMax THEN SetMax(vals) ELSE SetMin(vals)

PlainMove(b, c, lim, isMax) ==
  LET moves == get_possible_moves(b, c)
      val(k) == PlainValue(play_move(b, c, moves[k][1], moves[k][2]),
                           Opponent(c), lim - 1, ~isMax)
      best == PlainValue(b, c, lim, isMax)
  IN  IF moves = <<>> \/ lim = 0 THEN None
      ELSE moves[CHOOSE k \in DOMAIN moves :
                   val(k) = best /\ \A j \in 1..(k - 1) : val(j) # best]

\* Number of node calls of the search when nothing is ever found in the cache.
RECURSIVE PlainNodes(_, _, _)
PlainNodes(b, c, lim) ==
  LET moves == get_possible_moves(b, c)
      sub[k \in 0..Len(moves)] ==
        IF k = 0 THEN 0
        ELSE sub[k - 1] + PlainNodes(play_move(b, c, moves[k][1], moves[k][2]),
                                     Opponent(c), lim - 1)
  IN  IF moves = <<>> \/ lim = 0 THEN 1 ELSE 1 + sub[Len(moves)]

\* Textbook depth-limited minimax: every leaf is scored for the root player.
RECURSIVE RootValue(_, _, _, _, _)
RootValue(b, c, root, lim, isMax) ==
  LET moves == get_possible_moves(b, c)
  IN  IF moves = <<>> \/ lim = 0 THEN compute_utility(b, root)
      ELSE LET vals == {RootValue(play_move(b, c, moves[k][1], moves[k][2]),
                                  Opponent(c), root, lim - 1, ~isMax) : k \in DOMAIN moves}
           IN  IF isMax THEN SetMax(vals) ELSE SetMin(vals)

\* Alpha-beta of lines 144-223 with ordering off and no cache; <<move, value>>.
RECURSIVE PlainAlphabeta(_, _, _, _, _, _)
RECURSIVE PlainAlphabetaLoop(_, _, _, _, _, _, _, _, _, _)
PlainAlphabetaLoop(b, c, alpha, beta, lim, isMax, moves, k, value, best_move) ==
  IF k > Len(moves) THEN <<best_move, value>>
  ELSE
    LET nv == PlainAlphabeta(play_move(b, c, moves[k][1], moves[k][2]),
                             Opponent(c), alpha, beta, lim - 1, ~isMax)[2]
        better == IF isMax THEN nv > value ELSE nv < value
        value1 == IF better THEN nv ELSE value
        best1 == IF better THEN moves[k] ELSE best_move
    IN  IF isMax
        THEN IF value1 >= beta THEN <<best1, value1>>
             ELSE PlainAlphabetaLoop(b, c, Max2(alpha, value1), beta, lim, isMax,
                                     moves, k + 1, value1, best1)
        ELSE IF value1 <= alpha THEN <<best1, value1>>
             ELSE PlainAlphabetaLoop(b, c, alpha, Min2(beta, value1), lim, isMax,
                                     moves, k + 1, value1, best1)

PlainAlphabeta(b, c, alpha, beta, lim, isMax) ==
  LET moves == get_possible_moves(b, c)
  IN  IF moves = <<>> \/ lim = 0 THEN <<None, compute_utility(b, c)>>
      ELSE PlainAlphabetaLoop(b, c, alpha, beta, lim, isMax, moves, 1,
                              IF isMax THEN -Inf ELSE Inf, None)

\* The node of the last search at which board x is evaluated: x is reached
\* Ply(x) moves below the root.
Ply(x) == Empties(board) - Empties(x)
ColorAt(x) == IF Ply(x) % 2 = 0 THEN color ELSE Opponent(color)
LimitAt(x) == limit - Ply(x)
IsMaxAt(x) == Ply(x) % 2 = 0

Called == ncalls >= 1
FirstMinimax == ncalls = 1 /\ engine = "minimax"

(***************************************************************************)
(* Properties.                                                             *)
(***************************************************************************)

\* C1: from an empty cache and with ordering off, select_move_alphabeta
\* returns the same move, and its root node the same value, as
\* select_move_minimax on the same board, color and depth limit.
C1_AlphabetaEqualsMinimax ==
  FirstMinimax =>
    LET ab == select_move_alphabeta(board, color, limit, caching, 0, <<>>)
    IN  /\ ~ab.raised
        /\ result.move = ab.move
        /\ result.value = ab.value

\* C2: whatever calls came before, a call returns the move and root value of
\* the same search made without consulting the cache.
C2_CachingTransparent ==
  (Called /\ ordering = 0) =>
    /\ ~raised
    /\ engine = "minimax" =>
         /\ result.move = PlainMove(board, color, limit, TRUE)
         /\ result.value = PlainValue(board, color, limit, TRUE)
    /\ engine = "alphabeta" =>
         <<result.move, result.value>> =
           PlainAlphabeta(board, color, -Inf, Inf, limit, TRUE)

\* C3: a call made with caching = 0 leaves the global cache as it was.
C3_CachingOffLeavesCache ==
  [][(ncalls' = ncalls + 1 /\ caching' = 0) => cached' = cached]_vars

\* C4: when the acting color has no legal move, the call returns the pass
\* sentinel and utility(board, color), raises nothing and leaves the cache
\* unchanged, for every limit, flag setting, engine and cache content.
C4_NoLegalMove ==
  [][(ncalls' = ncalls + 1 /\ get_possible_moves(board', color') = <<>>) =>
       /\ ~raised'
       /\ result'.move = None
       /\ result'.value = compute_utility(board', color')
       /\ cached' = cached]_vars

C4_Witness ==
  /\ ncalls = 2
  /\ cached # <<>>
  /\ board = BoardFull
  /\ engine = "alphabeta"
  /\ ordering = 1
  /\ limit = -1
  /\ get_possible_moves(board, color) = <<>>
  /\ result.move = None
  /\ result.value = compute_utility(board, color)

\* C5: when color has exactly one legal move, both engines (ordering off)
\* return that move for every depth limit >= 1, whatever the cache holds.
C5_ForcedMove ==
  (Called /\ ordering = 0 /\ limit >= 1
     /\ Len(get_possible_moves(board, color)) = 1) =>
    /\ ~raised
    /\ result.move = get_possible_moves(board, color)[1]

C5_Witness ==
  /\ ncalls = 2
  /\ engine = "alphabeta"
  /\ ordering = 0
  /\ limit >= 1
  /\ Len(get_possible_moves(board, color)) = 1
  /\ LET m == get_possible_moves(board, color)[1]
     IN  /\ result.move = m
         \* the only successor was answered from the cache of an earlier call
         /\ depth = 0
         /\ play_move(board, color, m[1], m[2]) \in DOMAIN cached

\* C6: with limit -1 a search from a board where color has a legal move
\* returns one of color's legal moves, and its recursion depth is at most
\* the number of empty cells of the root board.
C6_UnlimitedSearch ==
  (Called /\ limit = -1 /\ get_possible_moves(board, color) # <<>>) =>
    /\ ~raised
    /\ result.move \in MoveSet(board, color)
    /\ depth <= Empties(board)

\* C6, for the searches that do not order their moves.
UnlimitedSearchUnordered ==
  (Called /\ limit = -1 /\ ordering = 0
     /\ get_possible_moves(board, color) # <<>>) =>
    /\ ~raised
    /\ result.move \in MoveSet(board, color)
    /\ depth <= Empties(board)

\* C7: from the same cache, select_move_alphabeta with ordering on returns
\* the same move as with ordering off.
C7_OrderingKeepsMove ==
  (ncalls = 1 /\ engine = "alphabeta" /\ ordering = 1) =>
    /\ ~raised
    /\ result.move =
         select_move_alphabeta(board, color, limit, caching, 0, <<>>).move

\* The value the last search has in the cache for the k-th child of x.
CachedChild(x, k) ==
  LET moves == get_possible_moves(x, ColorAt(x))
  IN  cached[play_move(x, ColorAt(x), moves[k][1], moves[k][2])][2]

NonTerminalAt(x) ==
  get_possible_moves(x, ColorAt(x)) # <<>> /\ LimitAt(x) # 0

\* (mv, val) is the earliest move of x whose child value is the extreme one.
EarliestBest(x, mv, val) ==
  LET moves == get_possible_moves(x, ColorAt(x))
  IN  \E k \in DOMAIN moves :
        /\ mv = moves[k]
        /\ CachedChild(x, k) = val
        /\ \A j \in 1..(k - 1) : CachedChild(x, j) # val
        /\ \A j \in DOMAIN moves :
             IF IsMaxAt(x) THEN CachedChild(x, j) <= val
                           ELSE CachedChild(x, j) >= val

\* x has two moves whose child values both equal the value of x.
TiedAt(x, val) ==
  LET moves == get_possible_moves(x, ColorAt(x))
  IN  \E j, k \in DOMAIN moves :
        j < k /\ CachedChild(x, j) = val /\ CachedChild(x, k) = val

\* C8: in minimax every non-terminal maximize node returns the earliest move,
\* in enumeration order, whose child value equals the returned maximum, and
\* every non-terminal minimize node the earliest move whose child value
\* equals the returned minimum.
C8_TieBreak ==
  FirstMinimax =>
    /\ NonTerminalAt(board) => EarliestBest(board, result.move, result.value)
    /\ \A x \in DOMAIN cached :
         NonTerminalAt(x) => EarliestBest(x, cached[x][1], cached[x][2])

C8_Witness ==
  /\ FirstMinimax
  /\ NonTerminalAt(board)
  /\ TiedAt(board, result.value)
  /\ EarliestBest(board, result.move, result.value)
  /\ \E x \in DOMAIN cached :
       /\ ~IsMaxAt(x)
       /\ NonTerminalAt(x)
       /\ TiedAt(x, cached[x][2])
       /\ EarliestBest(x, cached[x][1], cached[x][2])

\* C9: from an empty cache and for a limit d >= 1, the root value of minimax
\* is the depth-d minimax value with every leaf scored for the root player;
\* for d = 1 the move maximizes utility(successor, color).
C9_RootPerspectiveValue ==
  (FirstMinimax /\ limit >= 1) =>
    /\ result.value = RootValue(board, color, color, limit, TRUE)
    /\ (limit = 1 /\ get_possible_moves(board, color) # <<>>) =>
         /\ result.move \in MoveSet(board, color)
         /\ \A m \in MoveSet(board, color) :
              compute_utility(play_move(board, color, m[1], m[2]), color)
                <= compute_utility(play_move(board, color, result.move[1],
                                             result.move[2]), color)

\* C10: in one select_move_minimax call from an empty cache, every cache
\* entry is the (move, value) that an evaluation of that board's node
\* without the cache returns.
C10_CacheEntriesExact ==
  FirstMinimax =>
    \A x \in DOMAIN cached :
      /\ Ply(x) >= 1
      /\ cached[x] = << PlainMove(x, ColorAt(x), LimitAt(x), IsMaxAt(x)),
                        PlainValue(x, ColorAt(x), LimitAt(x), IsMaxAt(x)) >>

\* Some successor was answered from the cache: the search made fewer node
\* calls than the game tree has nodes.
C10_Witness ==
  /\ FirstMinimax
  /\ limit = -1
  /\ Cardinality(DOMAIN cached) + 1 < PlainNodes(board, color, limit)
  /\ \A x \in DOMAIN cached :
       cached[x] = << PlainMove(x, ColorAt(x), LimitAt(x), IsMaxAt(x)),
                      PlainValue(x, ColorAt(x), LimitAt(x), IsMaxAt(x)) >>
====
